---- MODULE Spec2Model ----
(***************************************************************************)
(* A model of traces.TimeSeries (src/traces/timeseries.py): an ordered     *)
(* map from times to values read as a step function, with point and        *)
(* interval writes, interval deletes, the period iterator, the n-ary merge *)
(* and the interval resampler.                                             *)
(*                                                                         *)
(* The SortedDict self._d is a sequence of <<time, value>> pairs kept in   *)
(* strictly ascending time order; Python's 0-based index k is position     *)
(* k + 1 of the sequence.  Times and values are small naturals.            *)
(***************************************************************************)
EXTENDS Integers, Sequences, FiniteSets, TLC

\* Times are 0..MaxTime.  Values are only compared with each other, so two
\* of them give every case of equal and unequal neighbours.
MaxTime == 3

Times == 0..MaxTime
Values == {0, 1}

\* EXTEND_BACK = object(): a default that is no value.
EXTEND_BACK == -1
\* What a call returns in place of a value when it raises KeyError.
KeyErr == -2
\* Python's None, as a default.
NoneVal == -3

Defaults == {EXTEND_BACK} \cup Values

VARIABLES
    pts,    \* self._d: the measurements, ascending in time
    dflt,   \* self._default
    live,   \* the build's SortedDict.islice: TRUE reads the list by index
            \* while it is iterated, FALSE iterates a copy of the slice
    last,   \* the operation that ran last
    err,    \* the exception the last operation raised, or "none"
    pre,    \* the measurements before the recorded call
    arg,    \* the arguments of the recorded call
    appendOnly, \* every write so far began after all keys recorded before it
    mg,     \* a call of TimeSeries.merge in progress
    si,     \* a call of TimeSeries.sample_interval and its result
    alg     \* a call of to_domain().to_bool(), of an elementwise operation
            \* or of Domain.__and__, with its operands and its result

series == <<pts, dflt, live, last, err, pre, arg, appendOnly>>
vars == <<pts, dflt, live, last, err, pre, arg, appendOnly, mg, si, alg>>

(***************************************************************************)
(* SortedDict                                                              *)
(***************************************************************************)
KeyAt(d, k) == d[k + 1][1]
ValAt(d, k) == d[k + 1][2]
KeySeq(d) == [i \in 1..Len(d) |-> d[i][1]]
KeySet(d) == {d[i][1] : i \in 1..Len(d)}
HasKey(d, t) == \E i \in 1..Len(d) : d[i][1] = t

\* Number of keys <= t: the index at which t would be inserted to the right.
bisect_right(d, t) == Cardinality({i \in 1..Len(d) : d[i][1] <= t})
bisect_left(d, t) == Cardinality({i \in 1..Len(d) : d[i][1] < t})

\* self._d[time] = value
DictSet(d, t, v) ==
    IF HasKey(d, t)
    THEN [i \in 1..Len(d) |-> IF d[i][1] = t THEN <<t, v>> ELSE d[i]]
    ELSE LET k == bisect_right(d, t)
         IN SubSeq(d, 1, k) \o <<(<<t, v>>)>> \o SubSeq(d, k + 1, Len(d))

DictDel_before(d, t) ==
    LET k == bisect_left(d, t) - 1
    IN SubSeq(d, 1, k) \o SubSeq(d, k + 2, Len(d))

\* del self._d[time], for a time that is a key
DictDel(d, t) ==
    LET k == bisect_left(d, t)
    IN SubSeq(d, 1, k) \o SubSeq(d, k + 2, Len(d))

IsSorted(d) == \A i \in 1..(Len(d) - 1) : d[i][1] < d[i + 1][1]

(***************************************************************************)
(* Point access                                                            *)
(***************************************************************************)
is_floating(d, df) == df = EXTEND_BACK /\ Len(d) = 0

\* A default property that answers 0 on a floating series.
default_quiet(d, df) ==
    IF is_floating(d, df) THEN 0
    ELSE IF df = EXTEND_BACK THEN ValAt(d, 0) ELSE df

\* The default property: KeyError on a floating series.
default(d, df) ==
    IF is_floating(d, df) THEN KeyErr
    ELSE IF df = EXTEND_BACK THEN ValAt(d, 0) ELSE df

get_previous_left(d, df, time) ==
    LET right_index == bisect_left(d, time)
    IN IF right_index > 0 THEN ValAt(d, right_index - 1) ELSE default(d, df)

_get_previous(d, df, time) ==
    LET right_index == bisect_right(d, time)
    IN IF right_index > 0 THEN ValAt(d, right_index - 1) ELSE default(d, df)

get(d, df, time) == _get_previous(d, df, time)

set_always(d, df, time, value, compact) == DictSet(d, time, value)

set_never_when_compact(d, df, time, value, compact) ==
    IF ~compact THEN DictSet(d, time, value) ELSE d

\* TimeSeries.set: Len(d) = 0 is tested first, so get is never reached on
\* an empty series.
set(d, df, time, value, compact) ==
    IF Len(d) = 0 \/ ~compact \/ (compact /\ get(d, df, time) # value)
    THEN DictSet(d, time, value)
    ELSE d

\* A remove that ignores a missing key.
remove_quiet(d, time) ==
    IF HasKey(d, time)
    THEN [pts |-> DictDel(d, time), err |-> "none"]
    ELSE [pts |-> d, err |-> "none"]

\* TimeSeries.remove: KeyError when time is no key.
remove(d, time) ==
    IF HasKey(d, time)
    THEN [pts |-> DictDel(d, time), err |-> "none"]
    ELSE [pts |-> d, err |-> "KeyError"]

(***************************************************************************)
(* The period iterator.  iterperiods is a generator: its body runs only    *)
(* while the caller asks for the next triple, so a caller that writes to   *)
(* the series inside its loop changes what the rest of the body reads.  A  *)
(* generator in flight is the record                                       *)
(*   t0, val  interval_t0 and interval_value                               *)
(*   idx      the index SortedDict.islice reads next, stop its end index   *)
(*   snap     the keys when islice was called                              *)
(*   pend     the interval_t1 of the triple being consumed                 *)
(*   phase    "loop" inside the for loop, "final" after the last triple    *)
(* and a request for the next triple answers with kind "yield" (t0, t1, v  *)
(* and the generator to resume), "stop", or the exception raised.          *)
(***************************************************************************)
GenAnswer(kind, t0, t1, v, g) ==
    [kind |-> kind, t0 |-> t0, t1 |-> t1, v |-> v, g |-> g]

\* for interval_t1 in self._d.islice(start_index, end_index), then the
\* final period.  Reading by index raises IndexError past the end of the
\* list as it is now.
GenAdvance(d, lv, g) ==
    IF g.idx < g.stop
    THEN IF lv /\ g.idx >= Len(d)
         THEN GenAnswer("IndexError", 0, 0, 0, g)
         ELSE LET t1 == IF lv THEN KeyAt(d, g.idx) ELSE g.snap[g.idx + 1]
              IN GenAnswer("yield", g.t0, t1, g.val,
                           [g EXCEPT !.idx = @ + 1, !.pend = t1])
    ELSE IF g.t0 < g.end
         THEN GenAnswer("yield", g.t0, g.end, g.val, [g EXCEPT !.phase = "final"])
         ELSE GenAnswer("stop", 0, 0, 0, g)

\* A first request that takes the start index with bisect_left.
GenStart_left(d, df, lv, start, end) ==
    LET start_index == bisect_left(d, start)
        start_value == IF start_index > 0 THEN ValAt(d, start_index - 1)
                       ELSE default(d, df)
        g == [t0 |-> start, val |-> start_value, idx |-> start_index,
              stop |-> bisect_right(d, end), snap |-> KeySeq(d), end |-> end,
              pend |-> start, phase |-> "loop"]
    IN IF start >= end THEN GenAnswer("ValueError", 0, 0, 0, g)
       ELSE IF start_value = KeyErr THEN GenAnswer("KeyError", 0, 0, 0, g)
       ELSE GenAdvance(d, lv, g)

\* The first request: _check_boundaries, the two bisects, the start value.
GenStart(d, df, lv, start, end) ==
    LET start_index == bisect_right(d, start)
        start_value == IF start_index > 0 THEN ValAt(d, start_index - 1)
                       ELSE default(d, df)
        g == [t0 |-> start, val |-> start_value, idx |-> start_index,
              stop |-> bisect_right(d, end), snap |-> KeySeq(d), end |-> end,
              pend |-> start, phase |-> "loop"]
    IN IF start >= end THEN GenAnswer("ValueError", 0, 0, 0, g)
       ELSE IF start_value = KeyErr THEN GenAnswer("KeyError", 0, 0, 0, g)
       ELSE GenAdvance(d, lv, g)

\* A later request: the statements after the yield, on the series as the
\* caller left it.
GenResume(d, df, lv, g) ==
    IF g.phase = "final" THEN GenAnswer("stop", 0, 0, 0, g)
    ELSE LET val == get(d, df, g.pend)
         IN IF val = KeyErr THEN GenAnswer("KeyError", 0, 0, 0, g)
            ELSE GenAdvance(d, lv, [g EXCEPT !.t0 = g.pend, !.val = val])

\* The triples iterperiods yields to a caller that does not write.
RECURSIVE PeriodsFrom(_, _, _, _)
PeriodsFrom(d, df, lv, r) ==
    IF r.kind # "yield" THEN <<>>
    ELSE <<(<<r.t0, r.t1, r.v>>)>> \o PeriodsFrom(d, df, lv, GenResume(d, df, lv, r.g))

iterperiods(d, df, lv, start, end) ==
    PeriodsFrom(d, df, lv, GenStart(d, df, lv, start, end))

(***************************************************************************)
(* Interval write and interval delete                                      *)
(***************************************************************************)
Outcome(d, e) == [pts |-> d, err |-> e]

\* The loop of set_interval from its i-th triple r on, then the final set.
RECURSIVE SetIntervalLoop(_, _, _, _, _, _, _, _)
SetIntervalLoop(d, df, lv, r, i, end, value, compact) ==
    LET w == IF i = 0 THEN Outcome(set(d, df, r.t0, value, compact), "none")
             ELSE remove(d, r.t0)
    IN IF w.err # "none" THEN w
       ELSE LET r2 == GenResume(w.pts, df, lv, r.g)
            IN IF r2.kind = "yield"
               THEN SetIntervalLoop(w.pts, df, lv, r2, i + 1, end, value, compact)
               ELSE IF r2.kind = "stop"
               THEN Outcome(set(w.pts, df, end, r.v, compact), "none")
               ELSE Outcome(w.pts, r2.kind)

set_interval(d, df, lv, start, end, value, compact) ==
    LET r == GenStart(d, df, lv, start, end)
    IN IF r.kind = "yield"
       THEN SetIntervalLoop(d, df, lv, r, 0, end, value, compact)
       ELSE Outcome(d, r.kind)

\* The loop of remove_points_from_interval from the triple r on.
RECURSIVE RemovePointsLoop(_, _, _, _)
RemovePointsLoop(d, df, lv, r) ==
    LET d1 == IF HasKey(d, r.t0) THEN DictDel(d, r.t0) ELSE d
        r2 == GenResume(d1, df, lv, r.g)
    IN IF r2.kind = "yield" THEN RemovePointsLoop(d1, df, lv, r2)
       ELSE IF r2.kind = "stop" THEN Outcome(d1, "none")
       ELSE Outcome(d1, r2.kind)

remove_points_from_interval(d, df, lv, start, end) ==
    LET r == GenStart(d, df, lv, start, end)
    IN IF r.kind = "yield" THEN RemovePointsLoop(d, df, lv, r)
       ELSE Outcome(d, r.kind)

(***************************************************************************)
(* compact                                                                 *)
(***************************************************************************)
\* Deleting, for each redundant time, the entry before it instead.
RECURSIVE DelAll_keeping_last(_, _)
DelAll_keeping_last(d, times) ==
    IF Len(times) = 0 THEN d
    ELSE LET i == CHOOSE j \in 1..Len(d) : d[j][1] = Head(times)
         IN DelAll_keeping_last(DictDel(d, d[i - 1][1]), Tail(times))

\* Forgetting previous_value after each redundant entry found.
RECURSIVE Redundant_reset(_, _)
Redundant_reset(d, i) ==
    IF i > Len(d) THEN <<>>
    ELSE (IF i > 1 /\ d[i][2] = d[i - 1][2] /\ (i = 2 \/ d[i - 1][2] # d[i - 2][2])
          THEN <<d[i][1]>> ELSE <<>>)
         \o Redundant_reset(d, i + 1)

RECURSIVE DelAll(_, _)
DelAll(d, times) ==
    IF Len(times) = 0 THEN d ELSE DelAll(DictDel(d, Head(times)), Tail(times))

\* The times whose value equals the value of the entry before them.
RECURSIVE Redundant(_, _)
Redundant(d, i) ==
    IF i > Len(d) THEN <<>>
    ELSE (IF i > 1 /\ d[i][2] = d[i - 1][2] THEN <<d[i][1]>> ELSE <<>>)
         \o Redundant(d, i + 1)

compact(d) == DelAll(d, Redundant(d, 1))

(***************************************************************************)
(* Operations.  Each operation is one step: the whole call, with the       *)
(* exception it raises, if any, left in err and the measurements as the    *)
(* call left them.                                                         *)
(***************************************************************************)
NoArg == [s |-> 0, e |-> 0, v |-> 0, c |-> FALSE]

\* No merge in progress, no sample_interval called.
NoMerge == [pc |-> "idle"]
NoSample == [pc |-> "idle"]
NoAlg == [pc |-> "idle"]
Args(s, e, v, c) == [s |-> s, e |-> e, v |-> v, c |-> c]

AllKeysBefore(d, t) == \A k \in KeySet(d) : k < t

DoSet(t, v, c) ==
    /\ pts' = set(pts, dflt, t, v, c)
    /\ last' = "set"
    /\ err' = "none"
    /\ appendOnly' = (appendOnly /\ AllKeysBefore(pts, t))
    /\ UNCHANGED <<dflt, live, mg, si, alg>>

DoSetInterval(s, e, v, c) ==
    LET out == set_interval(pts, dflt, live, s, e, v, c)
    IN /\ pts' = out.pts
       /\ err' = out.err
       /\ last' = "set_interval"
       /\ appendOnly' = (appendOnly /\ AllKeysBefore(pts, s))
       /\ UNCHANGED <<dflt, live, mg, si, alg>>

DoRemove(t) ==
    LET out == remove(pts, t)
    IN /\ pts' = out.pts
       /\ err' = out.err
       /\ last' = "remove"
       /\ appendOnly' = FALSE
       /\ UNCHANGED <<dflt, live, mg, si, alg>>

DoRemovePoints(s, e) ==
    LET out == remove_points_from_interval(pts, dflt, live, s, e)
    IN /\ pts' = out.pts
       /\ err' = out.err
       /\ last' = "del"
       /\ appendOnly' = FALSE
       /\ UNCHANGED <<dflt, live, mg, si, alg>>

DoCompact ==
    /\ pts' = compact(pts)
    /\ err' = "none"
    /\ last' = "compact"
    /\ appendOnly' = FALSE
    /\ UNCHANGED <<dflt, live, mg, si, alg>>

(***************************************************************************)
(* Spec: an empty series and any sequence of operations on it.             *)
(***************************************************************************)
Init ==
    /\ pts = <<>>
    /\ dflt \in Defaults
    /\ live \in BOOLEAN
    /\ last = "init"
    /\ err = "none"
    /\ pre = <<>>
    /\ arg = NoArg
    /\ appendOnly = TRUE
    /\ mg = NoMerge
    /\ si = NoSample
    /\ alg = NoAlg

SetOp(t, v, c) == DoSet(t, v, c) /\ UNCHANGED <<pre, arg>>
SetIntervalOp(s, e, v, c) == DoSetInterval(s, e, v, c) /\ UNCHANGED <<pre, arg>>
RemoveOp(t) == DoRemove(t) /\ UNCHANGED <<pre, arg>>
RemovePointsOp(s, e) == DoRemovePoints(s, e) /\ UNCHANGED <<pre, arg>>
CompactOp == DoCompact /\ UNCHANGED <<pre, arg>>

Next ==
    \/ \E t \in Times, v \in Values, c \in BOOLEAN : SetOp(t, v, c)
    \/ \E s \in Times, e \in Times, v \in Values, c \in BOOLEAN :
          s <= e /\ SetIntervalOp(s, e, v, c)
    \/ \E t \in Times : RemoveOp(t)
    \/ \E s \in Times, e \in Times : s <= e /\ RemovePointsOp(s, e)
    \/ CompactOp

Spec == Init /\ [][Next]_vars

(***************************************************************************)
(* SpecCompact: an empty series and writes with compact=True only.         *)
(***************************************************************************)
NextCompact ==
    \/ \E t \in Times, v \in Values : SetOp(t, v, TRUE)
    \/ \E s \in Times, e \in Times, v \in Values :
          s <= e /\ SetIntervalOp(s, e, v, TRUE)

SpecCompact == Init /\ [][NextCompact]_vars

(***************************************************************************)
(* SpecCall: a series constructed from any data, then one call, recorded   *)
(* with its arguments and the measurements it started from.                *)
(***************************************************************************)
\* SortedDict(data): the pairs of data in ascending time order.
RECURSIVE SeriesOf(_, _)
SeriesOf(K, f) ==
    IF K = {} THEN <<>>
    ELSE LET m == CHOOSE k \in K : \A j \in K : k <= j
         IN <<(<<m, f[m]>>)>> \o SeriesOf(K \ {m}, f)

AllSeries(T, V) == UNION {{SeriesOf(K, f) : f \in [K -> V]} : K \in SUBSET T}

InitCall ==
    /\ pts \in AllSeries(Times, Values)
    /\ dflt \in Defaults
    /\ live \in BOOLEAN
    /\ last = "init"
    /\ err = "none"
    /\ pre = <<>>
    /\ arg = NoArg
    /\ appendOnly = TRUE
    /\ mg = NoMerge
    /\ si = NoSample
    /\ alg = NoAlg

Record(s, e, v, c) == last = "init" /\ pre' = pts /\ arg' = Args(s, e, v, c)

SetCall(t, v, c) == Record(t, t, v, c) /\ DoSet(t, v, c)
SetIntervalCall(s, e, v, c) == Record(s, e, v, c) /\ DoSetInterval(s, e, v, c)
RemoveCall(t) == Record(t, t, 0, FALSE) /\ DoRemove(t)
RemovePointsCall(s, e) == Record(s, e, 0, FALSE) /\ DoRemovePoints(s, e)
CompactCall == Record(0, 0, 0, FALSE) /\ DoCompact

NextCall ==
    \/ \E t \in Times, v \in Values, c \in BOOLEAN : SetCall(t, v, c)
    \/ \E s \in Times, e \in Times, v \in Values, c \in BOOLEAN :
          s <= e /\ SetIntervalCall(s, e, v, c)
    \/ \E t \in Times : RemoveCall(t)
    \/ \E s \in Times, e \in Times : s <= e /\ RemovePointsCall(s, e)
    \/ CompactCall

SpecCall == InitCall /\ [][NextCall]_vars

(***************************************************************************)
(* SpecMerge: TimeSeries.merge(ts_list) on one or two series, a step per   *)
(* measurement popped from the priority queue.  A series of the list is a  *)
(* record of its measurements d and its default df.  mg holds              *)
(*   list    ts_list                                                       *)
(*   queue   the PriorityQueue of _iter_merge: entries (t, index, value,   *)
(*           iterator), the iterator given as cursor, the number of        *)
(*           measurements it has produced                                  *)
(*   state   the state list of _iter_merge                                 *)
(*   raw     the (t, state) pairs _iter_merge has yielded                  *)
(*   prev    previous_t and previous_state of iter_merge                   *)
(*   out     the (t, state) pairs iter_merge has yielded                   *)
(*   rdf, res  the default and the measurements of the series merge builds *)
(***************************************************************************)
MaxMergeTime == 2
MergeTimes == 0..MaxMergeTime
MergeDefaults == {EXTEND_BACK, 0}
MergeSizes == {0, 1, 2}
\* What a caller passes as default: None, or a value no input has as default.
GivenDefaults == {NoneVal, 1}

MergeSeries == {[d |-> d, df |-> df] :
                   d \in AllSeries(MergeTimes, Values), df \in MergeDefaults}
MergeLists == UNION {[1..n -> MergeSeries] : n \in MergeSizes}

QueueEntry(list, index, cursor) ==
    [t |-> list[index + 1].d[cursor][1], index |-> index,
     value |-> list[index + 1].d[cursor][2], cursor |-> cursor]

\* Every measurement of every series put on the queue at once.
SeedQueue_all(list) ==
    UNION {{QueueEntry(list, i - 1, c) : c \in 1..Len(list[i].d)} :
              i \in 1..Len(list)}

\* The first measurement of every series that has one.
SeedQueue(list) ==
    {QueueEntry(list, i - 1, 1) : i \in {j \in 1..Len(list) : Len(list[j].d) > 0}}

StartState_raw(list) == [i \in 1..Len(list) |-> list[i].df]

\* state = [ts.default for ts in timeseries_list]
StartState(list) == [i \in 1..Len(list) |-> default(list[i].d, list[i].df)]

\* queue.get(): the least entry, tuples compared by time, then by index.
PopMin(queue) ==
    CHOOSE x \in queue :
        \A y \in queue : x.t < y.t \/ (x.t = y.t /\ x.index <= y.index)

\* The entry popped, replaced by the next measurement of its series, if any.
PushNext(list, queue, x) ==
    (queue \ {x}) \cup
        (IF x.cursor < Len(list[x.index + 1].d)
         THEN {QueueEntry(list, x.index, x.cursor + 1)} ELSE {})

EndsTieGroup_always(index, t, previous_t) == index > 0

\* iter_merge yields the previous pair when a new time begins.
EndsTieGroup(index, t, previous_t) == index > 0 /\ t # previous_t

\* The default merge gives its result when the caller gives none.
MergedDefault(list) ==
    LET unique_defaults == {list[i].df : i \in 1..Len(list)}
    IN IF Cardinality(unique_defaults) = 1
       THEN CHOOSE x \in unique_defaults : TRUE
       ELSE EXTEND_BACK

\* The default of the result: the parameter default is None both when the
\* caller passes None and when the caller passes nothing.
ResultDefault(list, dflt_param) ==
    IF Len(list) = 0 THEN dflt_param
    ELSE IF dflt_param = NoneVal THEN MergedDefault(list)
    ELSE dflt_param

\* Python's sum of a list of numbers.
RECURSIVE SumOfList(_)
SumOfList(l) == IF Len(l) = 0 THEN 0 ELSE Head(l) + SumOfList(Tail(l))

\* value = merged if operation is None else operation(merged)
Operated(op, merged) == IF op = "sum" THEN SumOfList(merged) ELSE merged

\* The same with compact=False.
Emit_uncompacted(m, pair) ==
    [m EXCEPT !.out = Append(@, pair),
              !.res = set(@, m.rdf, pair[1], Operated(m.op, pair[2]), FALSE)]

\* result.set(t, value, compact=compact) for a pair iter_merge yields
Emit(m, pair) ==
    [m EXCEPT !.out = Append(@, pair),
              !.res = set(@, m.rdf, pair[1], Operated(m.op, pair[2]), TRUE)]

\* A call merge(list, operation=op, default=given) about to run; supplied
\* tells whether the caller passed default at all.
MergeCallOf(list, op, supplied, given) ==
    [pc |-> "start", list |-> list, op |-> op, supplied |-> supplied,
     given |-> IF supplied THEN given ELSE NoneVal,
     queue |-> {}, state |-> <<>>, raw |-> <<>>, prev |-> <<>>, out |-> <<>>,
     rdf |-> NoneVal, res |-> <<>>, err |-> "none"]

InitMerge ==
    /\ pts = <<>> /\ dflt = EXTEND_BACK /\ live = FALSE /\ last = "init"
    /\ err = "none" /\ pre = <<>> /\ arg = NoArg /\ appendOnly = TRUE
    /\ si = NoSample
    /\ alg = NoAlg
    /\ \E list \in MergeLists, supplied \in BOOLEAN, given \in GivenDefaults :
          /\ ~supplied => given = NoneVal
          /\ mg = MergeCallOf(list, "none", supplied, given)

\* merge up to the first request to iter_merge: the result's default, an
\* empty result for an empty list, KeyError for a floating series, else
\* _iter_merge fills the queue and the state.
MergeStartOf(m) ==
    LET m1 == [m EXCEPT !.rdf = ResultDefault(m.list, m.given)]
    IN IF Len(m.list) = 0 THEN [m1 EXCEPT !.pc = "done"]
       ELSE IF \E i \in 1..Len(m.list) : is_floating(m.list[i].d, m.list[i].df)
       THEN [m1 EXCEPT !.pc = "done", !.err = "KeyError"]
       ELSE [m1 EXCEPT !.pc = "loop", !.queue = SeedQueue(m.list),
                       !.state = StartState(m.list)]

\* One turn of the while loop of _iter_merge, with what iter_merge and merge
\* do with the pair it yields.
MergePopOf(m) ==
    LET x == PopMin(m.queue)
        state == [m.state EXCEPT ![x.index + 1] = x.value]
        m1 == IF EndsTieGroup(Len(m.raw), x.t, IF Len(m.raw) > 0 THEN m.prev[1] ELSE -1)
              THEN Emit(m, m.prev) ELSE m
    IN [m1 EXCEPT !.state = state,
                  !.raw = Append(@, <<x.t, state>>),
                  !.prev = <<x.t, state>>,
                  !.queue = PushNext(m.list, m.queue, x)]

\* The queue is empty: iter_merge yields the last pair, if there was one.
MergeFinishOf(m) ==
    [(IF Len(m.raw) > 0 THEN Emit(m, m.prev) ELSE m) EXCEPT !.pc = "done"]

\* The whole call, from any point of it to its end.
RECURSIVE MergeRun(_)
MergeRun(m) ==
    IF m.pc = "done" THEN m
    ELSE IF m.pc = "start" THEN MergeRun(MergeStartOf(m))
    ELSE IF m.queue # {} THEN MergeRun(MergePopOf(m))
    ELSE MergeRun(MergeFinishOf(m))

MergeStart ==
    /\ mg.pc = "start"
    /\ mg' = MergeStartOf(mg)
    /\ UNCHANGED <<series, si, alg>>

MergePop ==
    /\ mg.pc = "loop" /\ mg.queue # {}
    /\ mg' = MergePopOf(mg)
    /\ UNCHANGED <<series, si, alg>>

MergeFinish ==
    /\ mg.pc = "loop" /\ mg.queue = {}
    /\ mg' = MergeFinishOf(mg)
    /\ UNCHANGED <<series, si, alg>>

NextMerge == MergeStart \/ MergePop \/ MergeFinish

SpecMerge == InitMerge /\ [][NextMerge]_vars

(***************************************************************************)
(* SpecSample: TimeSeries.sample_interval(sampling_period, start, end,     *)
(* operation) on a series constructed from any data.  Times are whole      *)
(* numbers of one unit since the epoch.  An aggregate is the pair          *)
(* <<numerator, denominator>> of an exact fraction, NaN the pair <<0, 0>>. *)
(***************************************************************************)
MaxSampleTime == 4
MaxPeriod == 2
SampleTimes == 0..MaxSampleTime
SampleStarts == {0, 1}
SamplePeriods == 0..MaxPeriod
SampleDefaults == {EXTEND_BACK, 0}
Operations == {"mean", "max", "min"}
NaN == <<0, 0>>

\* _check_boundaries and _check_regularization with start, end and the
\* sampling period given: the exception they raise, or "none".
CheckSampling(start, end, period) ==
    IF start >= end THEN "ValueError"
    ELSE IF period <= 0 THEN "ValueError"
    ELSE IF period > end - start THEN "ValueError"
    ELSE "none"

\* pd.date_range(start, end, freq=sampling_period): start, start + period,
\* ... up to end, end included when it is on the grid.
DateRange(start, end, period) ==
    [k \in 1..((end - start) \div period + 1) |-> start + (k - 1) * period]

\* items_in_horizon: start, the measurements in [start, end], end.
ItemsInHorizon(d, df, start, end) ==
    <<(<<start, get(d, df, start)>>)>>
    \o SelectSeq(d, LAMBDA p : p[1] >= start /\ p[1] <= end)
    \o <<(<<end, get(d, df, end)>>)>>

\* DatetimeIndex.floor(freq): down to a multiple of freq since the epoch.
FloorTo(t, period) == t - (t % period)

\* idx.get_loc(x): the 0-based position of x in idx, -1 for KeyError.
GetLoc(idx, x) ==
    IF \E k \in 1..Len(idx) : idx[k] = x
    THEN (CHOOSE k \in 1..Len(idx) : idx[k] = x) - 1
    ELSE -1

Larger(a, b) == IF a >= b THEN a ELSE b
Smaller(a, b) == IF a <= b THEN a ELSE b

\* The init, update and finish lambdas of the three operations.
AggInit(op, t, v) == IF op = "mean" THEN 0 ELSE v
AggUpdate(op, agg, t0, t1, v) ==
    IF op = "mean" THEN agg + (t1 - t0) * v
    ELSE IF op = "max" THEN Larger(agg, v)
    ELSE Smaller(agg, v)
AggFinish(op, agg, t_start, t_end) ==
    IF op = "mean" THEN <<agg, t_end - t_start>> ELSE <<agg, 1>>

\* agg = init(t0, v0) when a new interval is set up, v1 being the value of
\* the inflexion point that opens it.
AggInitAt(op, t, v0, v1) == AggInit(op, t, v0)

\* The for loop of sample_interval from the j-th inflexion point on.  st
\* holds i0, t0, v0, agg, t_start, t_end and result.
RECURSIVE SampleLoop(_, _, _, _, _, _)
SampleLoop(op, idx, infl, locs, j, st) ==
    IF j > Len(infl) THEN st.result
    ELSE
    LET i1 == locs[j]
        t1 == infl[j][1]
        v1 == infl[j][2]
        Np1 == Len(idx) - 1
    IN IF st.i0 # i1
       THEN LET agg == AggFinish(op, AggUpdate(op, st.agg, st.t0, st.t_end, st.v0),
                                 st.t_start, st.t_end)
                r1 == Append(st.result, <<idx[st.i0 + 1], agg>>)
                r2 == IF i1 # st.i0 + 1
                      THEN Append(r1, <<idx[st.i0 + 2], <<st.v0, 1>>>>)
                      ELSE r1
            IN IF i1 = Np1 THEN r2
               ELSE LET t_start == idx[i1 + 1]
                        t_end == idx[i1 + 2]
                        agg0 == AggInitAt(op, t_start, st.v0, v1)
                    IN SampleLoop(op, idx, infl, locs, j + 1,
                           [i0 |-> i1, t0 |-> t1, v0 |-> v1,
                            agg |-> AggUpdate(op, agg0, t_start, t1, st.v0),
                            t_start |-> t_start, t_end |-> t_end, result |-> r2])
       ELSE SampleLoop(op, idx, infl, locs, j + 1,
                [st EXCEPT !.i0 = i1, !.t0 = t1, !.v0 = v1,
                           !.agg = AggUpdate(op, st.agg, st.t0, t1, st.v0)])

\* reindex(idx[:-1]).ffill(): a value for every grid time but the last, the
\* one recorded for it or else the one of the grid time before it.
RECURSIVE Filled(_, _, _)
Filled(idx, result, k) ==
    LET recs == {r \in 1..Len(result) : result[r][1] = idx[k]}
    IN IF recs # {} THEN result[CHOOSE r \in recs : TRUE][2]
       ELSE IF k = 1 THEN NaN
       ELSE Filled(idx, result, k - 1)

Reindexed(idx, result) ==
    [k \in 1..(Len(idx) - 1) |-> <<idx[k], Filled(idx, result, k)>>]

\* A grid time recorded twice makes reindex fail.
HasDuplicates(result) ==
    \E a \in 1..Len(result), b \in 1..Len(result) : a # b /\ result[a][1] = result[b][1]

SampleOutcome(out, e) == [out |-> out, err |-> e]

sample_interval(d, df, period, start, end, op) ==
    IF CheckSampling(start, end, period) # "none"
    THEN SampleOutcome(<<>>, CheckSampling(start, end, period))
    ELSE IF is_floating(d, df) THEN SampleOutcome(<<>>, "KeyError")
    ELSE
    LET idx == DateRange(start, end, period)
        infl == ItemsInHorizon(d, df, start, end)
        locs == [j \in 1..Len(infl) |-> GetLoc(idx, FloorTo(infl[j][1], period))]
        v0 == get(d, df, start)
        st == [i0 |-> 0, t0 |-> idx[1], v0 |-> v0, agg |-> AggInit(op, idx[1], v0),
               t_start |-> idx[1], t_end |-> idx[2], result |-> <<>>]
    IN IF \E j \in 1..Len(infl) : locs[j] = -1
       THEN SampleOutcome(<<>>, "KeyError")
       ELSE LET result == SampleLoop(op, idx, infl, locs, 1, st)
            IN IF HasDuplicates(result) THEN SampleOutcome(<<>>, "ValueError")
               ELSE SampleOutcome(Reindexed(idx, result), "none")

InitSample ==
    /\ pts = <<>> /\ dflt = EXTEND_BACK /\ live = FALSE /\ last = "init"
    /\ err = "none" /\ pre = <<>> /\ arg = NoArg /\ appendOnly = TRUE
    /\ mg = NoMerge
    /\ alg = NoAlg
    /\ \E d \in AllSeries(SampleTimes, Values), df \in SampleDefaults,
          start \in SampleStarts, end \in SampleTimes,
          period \in SamplePeriods, op \in Operations :
          /\ start <= end
          /\ si = [pc |-> "start", d |-> d, df |-> df, start |-> start, end |-> end,
                   period |-> period, op |-> op, out |-> <<>>, err |-> "none"]

SampleIntervalCall ==
    /\ si.pc = "start"
    /\ LET r == sample_interval(si.d, si.df, si.period, si.start, si.end, si.op)
       IN si' = [si EXCEPT !.pc = "done", !.out = r.out, !.err = r.err]
    /\ UNCHANGED <<series, mg, alg>>

NextSample == SampleIntervalCall

SpecSample == InitSample /\ [][NextSample]_vars

(***************************************************************************)
(* Elementwise operations, Domains.  Booleans are the values 1 (True) and  *)
(* 0 (False), as in Python; -inf and inf are times beyond every other      *)
(* time.                                                                   *)
(***************************************************************************)
NegInf == -9
PosInf == 9
\* Domain.__init__: default=False
DomainDefault == 0

Truthy(v) == v # 0
Bool(v) == IF Truthy(v) THEN 1 ELSE 0
\* Python's x and y, x or y
PyAnd(x, y) == IF Truthy(x) THEN y ELSE x
PyOr(x, y) == IF Truthy(x) THEN x ELSE y

\* The lambdas of difference, multiply, logical_and, logical_or, logical_xor.
Functions == {"difference", "multiply", "logical_and", "logical_or", "logical_xor"}
Apply(fn, x, y) ==
    IF fn = "difference" THEN x - y
    ELSE IF fn = "multiply" THEN x * y
    ELSE IF fn = "logical_and" THEN PyAnd(x, y)
    ELSE IF fn = "logical_or" THEN PyOr(x, y)
    ELSE IF Bool(x) # Bool(y) THEN 1 ELSE 0

\* One for loop of operation(other, function) over the measurements of src
\* from the i-th on: result[time] = function(value, other[time]), the
\* arguments exchanged in the second loop.
RECURSIVE OperationLoop(_, _, _, _, _, _)
OperationLoop(res, src, other, fn, second, i) ==
    IF i > Len(src.d) THEN Outcome(res, "none")
    ELSE LET time == src.d[i][1]
             value == src.d[i][2]
             o == get(other.d, other.df, time)
         IN IF o = KeyErr THEN Outcome(res, "KeyError")
            ELSE OperationLoop(
                     set(res, EXTEND_BACK, time,
                         IF second THEN Apply(fn, o, value) ELSE Apply(fn, value, o),
                         FALSE),
                     src, other, fn, second, i + 1)

\* operation(other, function) with another TimeSeries: the result has the
\* default EXTEND_BACK.
operation(a, b, fn) ==
    LET r1 == OperationLoop(<<>>, a, b, fn, FALSE, 1)
    IN IF r1.err # "none" THEN r1
       ELSE OperationLoop(r1.pts, b, a, fn, TRUE, 1)

\* to_bool: operation(None, function) with the truth value of each element.
RECURSIVE ToBoolLoop(_, _, _)
ToBoolLoop(res, d, i) ==
    IF i > Len(d) THEN res
    ELSE ToBoolLoop(set(res, EXTEND_BACK, d[i][1], Bool(d[i][2]), FALSE), d, i + 1)

to_bool(d) == ToBoolLoop(<<>>, d, 1)

\* to_domain: the periods with a true value, written compactly.
RECURSIVE ToDomainLoop(_, _, _)
ToDomainLoop(res, periods, i) ==
    IF i > Len(periods) THEN res
    ELSE LET p == periods[i]
         IN ToDomainLoop(
                IF Truthy(p[3])
                THEN set(set(res, DomainDefault, p[1], 1, TRUE),
                         DomainDefault, p[2], 0, TRUE)
                ELSE res,
                periods, i + 1)

to_domain(d, df) ==
    IF is_floating(d, df) THEN Outcome(<<>>, "KeyError")
    ELSE Outcome(ToDomainLoop(<<>>, iterperiods(d, df, FALSE, NegInf, PosInf), 1), "none")

\* sum: merge([self, other], operation=sum)
sum(a, b) == MergeRun(MergeCallOf(<<a, b>>, "sum", FALSE, NoneVal))

\* slice(start, end) of a series that is not floating, start < end.
RECURSIVE SliceLoop(_, _, _)
SliceLoop(res, periods, i) ==
    IF i > Len(periods) THEN res
    ELSE SliceLoop(set(res, 0, periods[i][1], periods[i][3], FALSE), periods, i + 1)

\* A slice without the write at the end.
slice_open(d, df, start, end) ==
    SliceLoop(<<>>, iterperiods(d, df, FALSE, start, end), 1)

\* slice: a write at the t0 of every period, then one at the last t1.
slice(d, df, start, end) ==
    LET periods == iterperiods(d, df, FALSE, start, end)
        t1 == periods[Len(periods)][2]
    IN set(SliceLoop(<<>>, periods, 1), 0, t1, get(d, df, t1), FALSE)

\* Domain.start, Domain.end
Lower(d) == IF Len(d) > 0 THEN d[1][1] ELSE NegInf
Upper(d) == IF Len(d) > 0 THEN d[Len(d)][1] ELSE PosInf

\* One for loop of Domain.__and__ over a slice: in the first loop
\* result[time] = value and other[time], in the second self[time] and value.
RECURSIVE AndLoop(_, _, _, _, _)
AndLoop(res, sl, other, second, i) ==
    IF i > Len(sl) THEN res
    ELSE LET o == get(other, DomainDefault, sl[i][1])
         IN AndLoop(set(res, DomainDefault, sl[i][1],
                        IF second THEN PyAnd(o, sl[i][2]) ELSE PyAnd(sl[i][2], o),
                        FALSE),
                    sl, other, second, i + 1)

\* Only the first of the two loops of __and__.
DomainAnd_one_sided(a, b) ==
    LET lower == Larger(Lower(a), Lower(b))
        upper == Smaller(Upper(a), Upper(b))
    IN IF lower >= upper THEN <<>>
       ELSE AndLoop(<<>>, slice(a, DomainDefault, lower, upper), b, FALSE, 1)

\* Domain.__and__
DomainAnd(a, b) ==
    LET lower == Larger(Lower(a), Lower(b))
        upper == Smaller(Upper(a), Upper(b))
    IN IF lower >= upper THEN <<>>
       ELSE AndLoop(AndLoop(<<>>, slice(a, DomainDefault, lower, upper), b, FALSE, 1),
                    slice(b, DomainDefault, lower, upper), a, TRUE, 1)

MaxOpTime == 2
OpTimes == 0..MaxOpTime
OpSeries == {[d |-> d, df |-> df] : d \in AllSeries(OpTimes, Values), df \in Defaults}

\* SpecRoundTrip: b.to_domain().to_bool() for any constructed series b.
InitRoundTrip ==
    /\ pts = <<>> /\ dflt = EXTEND_BACK /\ live = FALSE /\ last = "init"
    /\ err = "none" /\ pre = <<>> /\ arg = NoArg /\ appendOnly = TRUE
    /\ mg = NoMerge /\ si = NoSample
    /\ \E d \in AllSeries(Times, Values), df \in Defaults :
          alg = [pc |-> "start", a |-> [d |-> d, df |-> df], dom |-> <<>>,
                 res |-> <<>>, rdf |-> EXTEND_BACK, err |-> "none"]

ToDomainCall ==
    /\ alg.pc = "start"
    /\ LET r == to_domain(alg.a.d, alg.a.df)
       IN alg' = [alg EXCEPT !.pc = IF r.err = "none" THEN "domain" ELSE "done",
                             !.dom = r.pts, !.err = r.err]
    /\ UNCHANGED <<series, mg, si>>

ToBoolCall ==
    /\ alg.pc = "domain"
    /\ alg' = [alg EXCEPT !.pc = "done", !.res = to_bool(alg.dom)]
    /\ UNCHANGED <<series, mg, si>>

NextRoundTrip == ToDomainCall \/ ToBoolCall

SpecRoundTrip == InitRoundTrip /\ [][NextRoundTrip]_vars

\* SpecOperation: one elementwise operation between any two constructed
\* series.
InitOperation ==
    /\ pts = <<>> /\ dflt = EXTEND_BACK /\ live = FALSE /\ last = "init"
    /\ err = "none" /\ pre = <<>> /\ arg = NoArg /\ appendOnly = TRUE
    /\ mg = NoMerge /\ si = NoSample
    /\ \E a \in OpSeries, b \in OpSeries :
          alg = [pc |-> "start", a |-> a, b |-> b, fn |-> "none",
                 res |-> <<>>, rdf |-> EXTEND_BACK, err |-> "none"]

OperationCall(fn) ==
    /\ alg.pc = "start"
    /\ LET r == operation(alg.a, alg.b, fn)
       IN alg' = [alg EXCEPT !.pc = "done", !.fn = fn, !.res = r.pts, !.err = r.err]
    /\ UNCHANGED <<series, mg, si>>

SumCall ==
    /\ alg.pc = "start"
    /\ LET m == sum(alg.a, alg.b)
       IN alg' = [alg EXCEPT !.pc = "done", !.fn = "sum", !.res = m.res,
                             !.rdf = m.rdf, !.err = m.err]
    /\ UNCHANGED <<series, mg, si>>

NextOperation == (\E fn \in Functions : OperationCall(fn)) \/ SumCall

SpecOperation == InitOperation /\ [][NextOperation]_vars

\* SpecIntersect: a & b for any two Domains constructed from data.
InitIntersect ==
    /\ pts = <<>> /\ dflt = EXTEND_BACK /\ live = FALSE /\ last = "init"
    /\ err = "none" /\ pre = <<>> /\ arg = NoArg /\ appendOnly = TRUE
    /\ mg = NoMerge /\ si = NoSample
    /\ \E a \in AllSeries(Times, Values), b \in AllSeries(Times, Values) :
          alg = [pc |-> "start", a |-> a, b |-> b, res |-> <<>>]

AndCall ==
    /\ alg.pc = "start"
    /\ alg' = [alg EXCEPT !.pc = "done", !.res = DomainAnd(alg.a, alg.b)]
    /\ UNCHANGED <<series, mg, si>>

NextIntersect == AndCall

SpecIntersect == InitIntersect /\ [][NextIntersect]_vars

(***************************************************************************)
(* SpecPeriods: iterperiods(start, end) read to its end by a caller that   *)
(* does not write, and slice(start, end), on any constructed series.       *)
(***************************************************************************)
\* The exception the first request to iterperiods raises, or "none".
PeriodsError(d, df, lv, start, end) ==
    LET r == GenStart(d, df, lv, start, end)
    IN IF r.kind \in {"yield", "stop"} THEN "none" ELSE r.kind

InitPeriods ==
    /\ pts = <<>> /\ dflt = EXTEND_BACK /\ live = FALSE /\ last = "init"
    /\ err = "none" /\ pre = <<>> /\ arg = NoArg /\ appendOnly = TRUE
    /\ mg = NoMerge /\ si = NoSample
    /\ \E d \in AllSeries(Times, Values), df \in Defaults, lv \in BOOLEAN,
          start \in Times, end \in Times :
          /\ start <= end
          /\ alg = [pc |-> "start", a |-> [d |-> d, df |-> df], lv |-> lv,
                    start |-> start, end |-> end, kind |-> "none",
                    periods |-> <<>>, res |-> <<>>, rdf |-> EXTEND_BACK,
                    err |-> "none"]

IterPeriodsCall ==
    /\ alg.pc = "start"
    /\ alg' = [alg EXCEPT
                  !.pc = "done", !.kind = "iterperiods",
                  !.periods = iterperiods(alg.a.d, alg.a.df, alg.lv, alg.start, alg.end),
                  !.err = PeriodsError(alg.a.d, alg.a.df, alg.lv, alg.start, alg.end)]
    /\ UNCHANGED <<series, mg, si>>

SliceCall ==
    /\ alg.pc = "start"
    /\ LET e == PeriodsError(alg.a.d, alg.a.df, alg.lv, alg.start, alg.end)
       IN alg' = [alg EXCEPT
                     !.pc = "done", !.kind = "slice", !.err = e,
                     !.res = IF e = "none"
                             THEN slice(alg.a.d, alg.a.df, alg.start, alg.end)
                             ELSE <<>>,
                     !.rdf = default(alg.a.d, alg.a.df)]
    /\ UNCHANGED <<series, mg, si>>

NextPeriods == IterPeriodsCall \/ SliceCall

SpecPeriods == InitPeriods /\ [][NextPeriods]_vars

(***************************************************************************)
(* SpecInterval: set_interval(s, e, v, compact) and del[s:e] step by step: *)
(* the requests to the period iterator and the loop bodies between them.   *)
(* alg.d0 is the series before the call, alg.d the series as it is now,    *)
(* alg.r the triple in hand, alg.i the index enumerate gives it, alg.late  *)
(* the number of triples produced when the series was already modified.    *)
(***************************************************************************)
IntervalOps == {"set_interval", "del"}

InitInterval ==
    /\ pts = <<>> /\ dflt = EXTEND_BACK /\ live = FALSE /\ last = "init"
    /\ err = "none" /\ pre = <<>> /\ arg = NoArg /\ appendOnly = TRUE
    /\ mg = NoMerge /\ si = NoSample
    /\ \E d \in AllSeries(Times, Values), df \in Defaults, lv \in BOOLEAN,
          op \in IntervalOps, s \in Times, e \in Times, v \in Values,
          c \in BOOLEAN :
          /\ s <= e
          /\ op = "del" => (v = 0 /\ c = FALSE)
          /\ alg = [pc |-> "start", op |-> op, d0 |-> d, d |-> d, df |-> df,
                    lv |-> lv, s |-> s, e |-> e, v |-> v, c |-> c,
                    r |-> GenAnswer("none", 0, 0, 0, <<>>), i |-> 0,
                    late |-> 0, err |-> "none"]

\* The answer r of the iterator taken by the for loop: a triple for the
\* body, the end of the loop, or an exception that ends the call.
TakeAnswer(a, r) ==
    IF r.kind = "yield"
    THEN [a EXCEPT !.pc = "body", !.r = r,
                   !.late = IF a.d # a.d0 THEN @ + 1 ELSE @]
    ELSE IF r.kind = "stop"
    THEN [a EXCEPT !.pc = "done",
                   !.d = IF a.op = "set_interval"
                         THEN set(a.d, a.df, a.e, a.r.v, a.c) ELSE a.d]
    ELSE [a EXCEPT !.pc = "done", !.err = r.kind]

\* The for statement asks the generator for its first triple.
IntervalStart ==
    /\ alg.pc = "start"
    /\ alg' = TakeAnswer(alg, GenStart(alg.d, alg.df, alg.lv, alg.s, alg.e))
    /\ UNCHANGED <<series, mg, si>>

\* The loop body for the triple in hand.
IntervalBody ==
    /\ alg.pc = "body"
    /\ LET w == IF alg.op = "del"
                THEN Outcome(IF HasKey(alg.d, alg.r.t0) THEN DictDel(alg.d, alg.r.t0)
                             ELSE alg.d, "none")
                ELSE IF alg.i = 0
                THEN Outcome(set(alg.d, alg.df, alg.r.t0, alg.v, alg.c), "none")
                ELSE remove(alg.d, alg.r.t0)
       IN alg' = [alg EXCEPT !.d = w.pts, !.err = w.err,
                             !.pc = IF w.err = "none" THEN "next" ELSE "done"]
    /\ UNCHANGED <<series, mg, si>>

\* The for statement asks for the next triple; when there is none,
\* set_interval does its last set.
IntervalNext ==
    /\ alg.pc = "next"
    /\ alg' = TakeAnswer([alg EXCEPT !.i = @ + 1],
                         GenResume(alg.d, alg.df, alg.lv, alg.r.g))
    /\ UNCHANGED <<series, mg, si>>

NextInterval == IntervalStart \/ IntervalBody \/ IntervalNext

SpecInterval == InitInterval /\ [][NextInterval]_vars

(***************************************************************************)
(* The step function the measurements stand for, stated without bisect.    *)
(***************************************************************************)
HasPair(d, t, v) == \E i \in 1..Len(d) : d[i] = <<t, v>>
KeysAtMost(d, t) == {k \in KeySet(d) : k <= t}
GreatestKeyAtMost(d, t) ==
    CHOOSE k \in KeysAtMost(d, t) : \A j \in KeysAtMost(d, t) : j <= k
ValueOfKey(d, k) == CHOOSE v \in Values : HasPair(d, k, v)
StepValue(d, df, t) ==
    IF KeysAtMost(d, t) # {} THEN ValueOfKey(d, GreatestKeyAtMost(d, t))
    ELSE IF df = EXTEND_BACK THEN d[1][2] ELSE df

NoEqualNeighbours(d) == \A i \in 1..(Len(d) - 1) : d[i][2] # d[i + 1][2]

\* The measurements stay in strictly ascending time order.
TypeOK == IsSorted(pts)

\* C1: in every state reached by set, set_interval, remove, del[s:e] and
\* compact in which the series has a measurement, get(t) is the value at the
\* greatest key <= t for every time t, and the default (the first recorded
\* value under EXTEND_BACK, the explicit default otherwise) when no key is
\* <= t.
C1_GetIsValueAtGreatestKey ==
    Len(pts) > 0 => \A t \in Times : get(pts, dflt, t) = StepValue(pts, dflt, t)

\* A series left by set_interval with a time before its first key, a time
\* that is a key and a later time that is no key.
C1_Witness ==
    /\ last = "set_interval" /\ err = "none"
    /\ Len(pts) >= 2
    /\ \E t \in Times : KeysAtMost(pts, t) = {}
    /\ \E t \in Times : HasKey(pts, t)
    /\ \E t \in Times : ~HasKey(pts, t) /\ KeysAtMost(pts, t) # {}

\* C2: on a series that is not floating, for every s < e and value v
\* (s or e a recorded key or not, any number of keys inside (s, e)),
\* set_interval(s, e, v) succeeds and leaves get(t) = v for every t in
\* [s, e) and get(e) as it was before the call.
C2_SetIntervalPost ==
    (/\ last = "set_interval" /\ ~arg.c
     /\ arg.s < arg.e /\ ~is_floating(pre, dflt)) =>
        /\ err = "none"
        /\ \A t \in arg.s..(arg.e - 1) : get(pts, dflt, t) = arg.v
        /\ get(pts, dflt, arg.e) = get(pre, dflt, arg.e)

\* C3 as stated: on a series that is not floating, del[s:e] with s < e
\* leaves get(t) unchanged for every t < s and every t >= e.
C3_DelLeavesOutsideUnchanged ==
    (last = "del" /\ arg.s < arg.e /\ ~is_floating(pre, dflt)) =>
        \A t \in Times :
            (t < arg.s \/ t >= arg.e) => get(pts, dflt, t) = get(pre, dflt, t)

\* C3 as amended: on a series that is not floating and that has an explicit
\* default or a key before s, del[s:e] with s < e leaves get(t) unchanged for
\* every t < s, whether or not the call completes.
C3_DelLeavesEarlierUnchanged ==
    (/\ last = "del" /\ arg.s < arg.e /\ ~is_floating(pre, dflt)
     /\ (dflt # EXTEND_BACK \/ \E k \in KeySet(pre) : k < arg.s)) =>
        \A t \in Times : t < arg.s => get(pts, dflt, t) = get(pre, dflt, t)

\* del[s:e] has removed two measurements of a series that has a key before s.
C3_Witness ==
    /\ last = "del" /\ err = "none" /\ arg.s < arg.e
    /\ \E k \in KeySet(pre) : k < arg.s
    /\ Len(pts) + 2 = Len(pre)

\* C4 as stated: after any sequence of compact writes from the empty series
\* no two consecutive pairs have equal values.
C4_CompactWritesKeepCompact == NoEqualNeighbours(pts)

\* C4 as amended: after any sequence of compact writes from the empty
\* series in which every write begins strictly after every key recorded
\* before it (set(t, v, compact=True) with t after the last key,
\* set_interval(s, e, v, compact=True) with s after the last key), no two
\* consecutive pairs have equal values.
C4_CompactAppendsKeepCompact == appendOnly => NoEqualNeighbours(pts)

\* Three measurements written by compact writes in ascending time order.
C4_Witness == appendOnly /\ Len(pts) >= 3 /\ err = "none"

\* C5: set(t, v, compact=True) leaves the measurements unchanged exactly when
\* the series is not empty and get(t) = v before the call; in every other
\* case the pair (t, v) is among the measurements afterwards.
C5_CompactSetNoOpIff ==
    (last = "set" /\ arg.c) =>
        LET skip == Len(pre) > 0 /\ get(pre, dflt, arg.s) = arg.v
        IN /\ (pts = pre) <=> skip
           /\ ~skip => HasPair(pts, arg.s, arg.v)

\* A compact set at a time that is no key was skipped.
C5_Witness ==
    /\ last = "set" /\ arg.c
    /\ ~HasKey(pre, arg.s) /\ Len(pre) >= 2 /\ pts = pre

MergedKeys == UNION {KeySet(mg.list[i].d) : i \in 1..Len(mg.list)}
HasTie == \E t \in MergeTimes : \A i \in 1..Len(mg.list) : HasKey(mg.list[i].d, t)
\* The state of the last pair _iter_merge yielded at time t.
LastRawState(t) ==
    LET js == {j \in 1..Len(mg.raw) : mg.raw[j][1] = t}
    IN mg.raw[CHOOSE j \in js : \A i \in js : i <= j][2]

\* C6: every (t, state) iter_merge yields has state[i] = series_i.get(t) for
\* every input i: the default of a series with no key <= t, and the values
\* of all the series that have a measurement at t.
C6_MergedStateIsGet ==
    \A k \in 1..Len(mg.out) : \A i \in 1..Len(mg.list) :
        mg.out[k][2][i] = get(mg.list[i].d, mg.list[i].df, mg.out[k][1])

\* Two series with a measurement at the same time were merged, one of them
\* still at its default at the first time yielded.
C6_Witness ==
    /\ mg.pc = "done" /\ mg.err = "none" /\ Len(mg.list) = 2 /\ HasTie
    /\ Len(mg.out) >= 2
    /\ \E i \in 1..2 : KeysAtMost(mg.list[i].d, mg.out[1][1]) = {}

\* C7: iter_merge yields strictly ascending times, one pair per distinct
\* time: when it ends the times yielded are the union of the measurement
\* times of the inputs, and each pair carries the last state _iter_merge
\* produced for its time.
C7_MergeOncePerTimeAscending ==
    /\ \A k \in 1..(Len(mg.out) - 1) : mg.out[k][1] < mg.out[k + 1][1]
    /\ (mg.pc = "done" /\ mg.err = "none") =>
          /\ {mg.out[k][1] : k \in 1..Len(mg.out)} = MergedKeys
          /\ \A k \in 1..Len(mg.out) : mg.out[k][2] = LastRawState(mg.out[k][1])

\* A merge of two series with a tied time has ended: _iter_merge yielded
\* more pairs than iter_merge.
C7_Witness ==
    /\ mg.pc = "done" /\ mg.err = "none" /\ HasTie
    /\ Len(mg.out) >= 2 /\ Len(mg.raw) > Len(mg.out)

\* In Python a list never equals a number: [v] == v is False.
ListEqualsNumber(l, n) == FALSE
\* merged.items() == items, the values of merged being lists.
MergedItemsEqual(merged, items) ==
    /\ Len(merged) = Len(items)
    /\ \A i \in 1..Len(merged) :
          merged[i][1] = items[i][1] /\ ListEqualsNumber(merged[i][2], items[i][2])
\* Every value v of items replaced by the list [v].
Wrapped(items) == [i \in 1..Len(items) |-> <<items[i][1], <<items[i][2]>>>>]

\* C8 as stated: merge([a]).items() == a.items() for every series a that is
\* not floating.
C8_SingletonMergeIsIdentity ==
    (mg.pc = "done" /\ mg.err = "none" /\ Len(mg.list) = 1) =>
        MergedItemsEqual(mg.res, mg.list[1].d)

\* C8 as amended: for every series a that is not floating,
\* merge([a]).items() are the items a has after compact(), each value v as
\* the one-element list [v].
C8_SingletonMergeIsCompactWrapped ==
    (mg.pc = "done" /\ mg.err = "none" /\ Len(mg.list) = 1) =>
        mg.res = Wrapped(compact(mg.list[1].d))

\* A merge of one series of three measurements, two consecutive ones equal,
\* has ended.
C8_Witness ==
    /\ mg.pc = "done" /\ mg.err = "none" /\ Len(mg.list) = 1
    /\ Len(mg.list[1].d) = 3 /\ Len(mg.res) = 2

(***************************************************************************)
(* sample_interval: the cells of the result and what the series does on    *)
(* them.  Measurement times are whole, so on the cell [g, g + period) the  *)
(* series takes the values it has at g, g + 1, ..., g + period - 1, each   *)
(* for one unit of time.                                                   *)
(***************************************************************************)
SampleDone == si.pc = "done"
SampleValid ==
    /\ si.pc # "idle"
    /\ CheckSampling(si.start, si.end, si.period) = "none"
    /\ ~is_floating(si.d, si.df)
Cells == 1..Len(si.out)
CellTimes(k) == si.out[k][1]..(si.out[k][1] + si.period - 1)
CellValues(k) == {get(si.d, si.df, t) : t \in CellTimes(k)}
RECURSIVE SumOver(_, _)
SumOver(T, f) ==
    IF T = {} THEN 0
    ELSE LET t == CHOOSE x \in T : TRUE IN f[t] + SumOver(T \ {t}, f)
CellIntegral(k) == SumOver(CellTimes(k), [t \in CellTimes(k) |-> get(si.d, si.df, t)])
GridCells(start, end, period) ==
    {start + j * period : j \in {i \in 0..(end - start) : start + (i + 1) * period <= end}}

\* What the cells of a returned mean are: the grid cells inside [start, end),
\* each with the integral of the series over it divided by the period.
MeanOfReturnedCells ==
    /\ {si.out[k][1] : k \in Cells} = GridCells(si.start, si.end, si.period)
    /\ \A k \in Cells :
           /\ si.out[k][2] # NaN
           /\ si.out[k][2][1] * si.period = si.out[k][2][2] * CellIntegral(k)

\* C9: with operation min or max, the value of every cell lies between the
\* smallest and the largest value the series takes on [G_k, G_k + period),
\* also when a measurement sits exactly on a grid boundary.
C9_MinMaxWithinCell ==
    (SampleDone /\ si.err = "none" /\ si.op \in {"min", "max"}) =>
        \A k \in Cells :
            /\ si.out[k][2][2] = 1
            /\ \E lo \in CellValues(k), hi \in CellValues(k) :
                   lo <= si.out[k][2][1] /\ si.out[k][2][1] <= hi

\* C10: with operation mean, every grid cell [G_k, G_k + period) in
\* [start, end) receives a value, and it is the integral of the series over
\* the cell divided by the period.
C10_MeanIsTimeWeighted ==
    (SampleDone /\ SampleValid /\ si.op = "mean") =>
        (si.err = "none" /\ MeanOfReturnedCells)


(***************************************************************************)
(* compact() called once on any constructed series.                        *)
(***************************************************************************)
QueryTimes == (-1)..(MaxTime + 1)

\* C11: after compact() no two consecutive measurements have equal values.
C11_CompactLeavesNoEqualNeighbours ==
    last = "compact" => NoEqualNeighbours(pts)

\* compact() has removed two measurements.
C11_Witness ==
    last = "compact" /\ Len(pts) + 2 <= Len(pre) /\ Len(pts) >= 2

\* C12: compact() leaves get(t) as it was for every time t (raising for a
\* floating series before and after) and adds no key.
C12_CompactKeepsStepFunction ==
    last = "compact" =>
        /\ \A t \in QueryTimes : get(pts, dflt, t) = get(pre, dflt, t)
        /\ KeySet(pts) \subseteq KeySet(pre)
        /\ Len(pts) <= Len(pre)

\* compact() has removed a measurement of a series with an explicit default
\* that differs from its first value.
C12_Witness ==
    /\ last = "compact" /\ Len(pts) < Len(pre)
    /\ dflt # EXTEND_BACK /\ dflt # pre[1][2]


\* C14: remove(t) on a recorded key t deletes the pair at t and no other
\* pair; on a time that is no key it raises and leaves the measurements as
\* they were.
C14_RemoveExactOrError ==
    last = "remove" =>
        IF HasKey(pre, arg.s)
        THEN /\ err = "none"
             /\ pts = SelectSeq(pre, LAMBDA p : p[1] # arg.s)
             /\ Len(pts) + 1 = Len(pre)
        ELSE err = "KeyError" /\ pts = pre

\* remove(t) has deleted a key that is neither the first nor the last.
C14_Witness ==
    /\ last = "remove" /\ err = "none" /\ Len(pre) >= 3
    /\ pre[1][1] < arg.s /\ arg.s < pre[Len(pre)][1]

\* C15: on a floating series get(t) raises for every t, and
\* set_interval(s, e, v) with s < e raises and leaves the series empty.
C15_FloatingRejectsQueries ==
    /\ is_floating(pts, dflt) => \A t \in QueryTimes : get(pts, dflt, t) = KeyErr
    /\ (last = "set_interval" /\ is_floating(pre, dflt) /\ arg.s < arg.e) =>
           (err # "none" /\ pts = <<>>)

\* set_interval was called with s < e on a floating series.
C15_Witness ==
    /\ last = "set_interval" /\ is_floating(pre, dflt) /\ arg.s < arg.e
    /\ err = "KeyError" /\ get(pts, dflt, arg.s) = KeyErr


\* The default the merged series is to have: the caller's when one is
\* passed, else the common default of the inputs, else EXTEND_BACK.
ClaimedDefault ==
    LET unique_defaults == {mg.list[i].df : i \in 1..Len(mg.list)}
    IN IF mg.supplied THEN mg.given
       ELSE IF Cardinality(unique_defaults) = 1
       THEN CHOOSE x \in unique_defaults : TRUE
       ELSE EXTEND_BACK

\* C18: the default of the series merge returns is the caller's default
\* whenever the caller passes one, whatever its value; otherwise the common
\* default of the inputs when they all have the same; otherwise EXTEND_BACK.
C18_MergeDefault ==
    (mg.pc \in {"loop", "done"}) => mg.rdf = ClaimedDefault


\* C13: for every boolean-valued series b with a measurement and every time
\* t at or after its first measurement, b.to_domain().to_bool().get(t) is
\* defined and equals b.get(t).
C13_DomainRoundTrip ==
    (alg.pc = "done" /\ alg.err = "none" /\ Len(alg.a.d) > 0) =>
        \A t \in QueryTimes :
            t >= alg.a.d[1][1] =>
                /\ get(alg.res, EXTEND_BACK, t) # KeyErr
                /\ get(alg.res, EXTEND_BACK, t) = get(alg.a.d, alg.a.df, t)

\* What does hold of the round trip: from the first true measurement of b
\* on, the result has the values of b.
RoundTripFromFirstTrue ==
    (alg.pc = "done" /\ alg.err = "none") =>
        \A t \in QueryTimes :
            (\E i \in 1..Len(alg.a.d) : alg.a.d[i][1] <= t /\ Truthy(alg.a.d[i][2])) =>
                get(alg.res, EXTEND_BACK, t) = get(alg.a.d, alg.a.df, t)


OperandsDefined == ~is_floating(alg.a.d, alg.a.df) /\ ~is_floating(alg.b.d, alg.b.df)
OperandKeys == KeySet(alg.a.d) \cup KeySet(alg.b.d)

\* C16: for any two series that are not floating, the measurement times of
\* the result of sum, difference, multiply, logical_and, logical_or and
\* logical_xor are exactly the union of the measurement times of the two.
C16_OperationKeysAreUnion ==
    (alg.pc = "done" /\ OperandsDefined) =>
        (alg.err = "none" /\ KeySet(alg.res) = OperandKeys)

\* What does hold: the claim for every operation but sum, and for sum the
\* times are among the union.
OperationKeysButSum ==
    (alg.pc = "done" /\ OperandsDefined) =>
        /\ alg.err = "none"
        /\ alg.fn # "sum" => KeySet(alg.res) = OperandKeys
        /\ KeySet(alg.res) \subseteq OperandKeys

\* C17: for any two numeric series x and y that are not floating and every
\* time t, also before the first measurement of either,
\* x.sum(y).get(t) = x.get(t) + y.get(t).
C17_SumIsPointwise ==
    (alg.pc = "done" /\ alg.fn = "sum" /\ OperandsDefined) =>
        /\ alg.err = "none"
        /\ \A t \in QueryTimes :
               get(alg.res, alg.rdf, t) =
                   get(alg.a.d, alg.a.df, t) + get(alg.b.d, alg.b.df, t)

\* What does hold: the sum is pointwise from the first measurement of
\* either series on.
SumIsPointwiseFromFirstKey ==
    (alg.pc = "done" /\ alg.fn = "sum" /\ OperandsDefined) =>
        /\ alg.err = "none"
        /\ \A t \in QueryTimes :
               (\E k \in OperandKeys : k <= t) =>
                   get(alg.res, alg.rdf, t) =
                       get(alg.a.d, alg.a.df, t) + get(alg.b.d, alg.b.df, t)


LastIsFalse(d) == Len(d) > 0 => ~Truthy(d[Len(d)][2])
\* True at the first key, then False, True, ... : a Domain's invariant.
Alternates(d) == \A i \in 1..Len(d) : d[i][2] = i % 2
KeyRangesDisjoint(a, b) ==
    /\ Len(a) > 0 /\ Len(b) > 0
    /\ a[Len(a)][1] < b[1][1] \/ b[Len(b)][1] < a[1][1]

\* C19: for any two Domains a and b whose last recorded value, if any, is
\* False, (a & b).get(t) = (a.get(t) and b.get(t)) at every time t, and
\* a & b has no measurement when the key ranges of a and b do not overlap.
C19_IntersectionIsPointwiseAnd ==
    (alg.pc = "done" /\ LastIsFalse(alg.a) /\ LastIsFalse(alg.b)) =>
        /\ \A t \in QueryTimes :
               Truthy(get(alg.res, DomainDefault, t)) <=>
                   (Truthy(get(alg.a, DomainDefault, t)) /\ Truthy(get(alg.b, DomainDefault, t)))
        /\ KeyRangesDisjoint(alg.a, alg.b) => alg.res = <<>>

\* a & b was computed for two Domains of two intervals each that overlap in
\* part.
C19_Witness ==
    /\ alg.pc = "done" /\ LastIsFalse(alg.a) /\ LastIsFalse(alg.b)
    /\ Alternates(alg.a) /\ Alternates(alg.b)
    /\ Len(alg.a) >= 2 /\ Len(alg.b) >= 2 /\ alg.a # alg.b
    /\ \E i \in 1..Len(alg.res) : Truthy(alg.res[i][2])

\* C20: for every pair of Domains a and b whose values alternate, no two
\* consecutive keys of a & b carry equal values.
C20_IntersectionIsCompact ==
    (alg.pc = "done" /\ Alternates(alg.a) /\ Alternates(alg.b)) =>
        NoEqualNeighbours(alg.res)


PeriodsCase ==
    /\ alg.pc = "done" /\ alg.kind = "iterperiods"
    /\ ~is_floating(alg.a.d, alg.a.df) /\ alg.start < alg.end
KeysInside(d, s, e) == {k \in KeySet(d) : s < k /\ k < e}

\* C21: for every series that is not floating and every start < end,
\* iterperiods(start, end) yields at least one triple; the first t0 is
\* start, every triple has t0 < t1, each t1 is the t0 of the next triple,
\* the last t1 is end, the t0 after the first are the recorded keys k with
\* start < k < end in ascending order, and each value is get(t0).
C21_PeriodsTile ==
    PeriodsCase =>
        LET p == alg.periods
            n == Len(p)
        IN /\ alg.err = "none"
           /\ n >= 1
           /\ p[1][1] = alg.start
           /\ p[n][2] = alg.end
           /\ \A i \in 1..n : p[i][1] < p[i][2]
           /\ \A i \in 1..(n - 1) : p[i][2] = p[i + 1][1]
           /\ {p[i][1] : i \in 2..n} = KeysInside(alg.a.d, alg.start, alg.end)
           /\ n - 1 = Cardinality(KeysInside(alg.a.d, alg.start, alg.end))
           /\ \A i \in 1..n : p[i][3] = get(alg.a.d, alg.a.df, p[i][1])

\* iterperiods has yielded three triples on a series with a key at start
\* and a key at end.
C21_Witness ==
    /\ PeriodsCase /\ Len(alg.periods) = 3
    /\ HasKey(alg.a.d, alg.start) /\ HasKey(alg.a.d, alg.end)

SliceCase ==
    /\ alg.pc = "done" /\ alg.kind = "slice"
    /\ ~is_floating(alg.a.d, alg.a.df) /\ alg.start < alg.end

\* C25: for every series that is not floating and every start < end,
\* slice(start, end) has as keys start, end and the keys of the source
\* strictly between them, and its value is the value of the source at every
\* time of [start, end], also when end is a recorded key.
C25_SliceAgrees ==
    SliceCase =>
        /\ alg.err = "none"
        /\ KeySet(alg.res) =
               {alg.start, alg.end} \cup KeysInside(alg.a.d, alg.start, alg.end)
        /\ IsSorted(alg.res)
        /\ \A t \in alg.start..alg.end :
               get(alg.res, alg.rdf, t) = get(alg.a.d, alg.a.df, t)

\* A slice that ends on a recorded key whose value differs from the value
\* before it, with a key strictly inside.
C25_Witness ==
    /\ SliceCase /\ HasKey(alg.a.d, alg.end)
    /\ KeysInside(alg.a.d, alg.start, alg.end) # {}
    /\ get(alg.a.d, alg.a.df, alg.end) # get(alg.a.d, alg.a.df, alg.end - 1)


\* The step-by-step call ends as the call taken as a whole does.
StepwiseAgrees ==
    alg.pc = "done" =>
        LET w == IF alg.op = "del"
                 THEN remove_points_from_interval(alg.d0, alg.df, alg.lv, alg.s, alg.e)
                 ELSE set_interval(alg.d0, alg.df, alg.lv, alg.s, alg.e, alg.v, alg.c)
        IN alg.d = w.pts /\ alg.err = w.err

\* C22: set_interval and del[s:e] take every period from the series as it
\* was before the call: no period is produced once the series has been
\* modified.
C22_PeriodsBeforeWrites ==
    alg.late = 0


\* C23: for every series that is not floating and every s < e, del[s:e]
\* completes without error, removes exactly the recorded keys k with
\* s <= k < e and leaves every other pair as it was, whether or not s is a
\* recorded key.
C23_DelRemovesExactlyInside ==
    (last = "del" /\ ~is_floating(pre, dflt) /\ arg.s < arg.e) =>
        /\ err = "none"
        /\ pts = SelectSeq(pre, LAMBDA p : p[1] < arg.s \/ p[1] >= arg.e)

\* What holds when islice iterates a copy of the slice.
DelRemovesExactlyInsideOfCopy ==
    (last = "del" /\ ~live /\ ~is_floating(pre, dflt) /\ arg.s < arg.e) =>
        /\ err = "none"
        /\ pts = SelectSeq(pre, LAMBDA p : p[1] < arg.s \/ p[1] >= arg.e)

\* C24: after set_interval(s, e, v) with compact=False on a series that is
\* not floating, s < e, the keys are the keys the series had outside [s, e]
\* together with s and e.
C24_SetIntervalCollapses ==
    (last = "set_interval" /\ ~arg.c /\ ~is_floating(pre, dflt) /\ arg.s < arg.e) =>
        /\ err = "none"
        /\ KeySet(pts) =
               {k \in KeySet(pre) : k < arg.s \/ k > arg.e} \cup {arg.s, arg.e}

\* What holds when islice iterates a copy of the slice.
SetIntervalCollapsesOfCopy ==
    (last = "set_interval" /\ ~live /\ ~arg.c /\ ~is_floating(pre, dflt)
     /\ arg.s < arg.e) =>
        /\ err = "none"
        /\ KeySet(pts) =
               {k \in KeySet(pre) : k < arg.s \/ k > arg.e} \cup {arg.s, arg.e}


\* The entries of series index (counted from 0) waiting on the queue.
Pending(index) == {x \in mg.queue : x.index = index}

\* How many measurements of series index have been popped: those before
\* the one waiting on the queue, all of them when none is waiting.
PoppedOf(index) ==
    IF Pending(index) = {} THEN Len(mg.list[index + 1].d)
    ELSE (CHOOSE x \in Pending(index) : TRUE).cursor - 1

\* The measurements at time t among those popped.
PoppedAt(t) ==
    {ic \in (0..(Len(mg.list) - 1)) \X (1..(MaxMergeTime + 1)) :
        /\ ic[2] <= PoppedOf(ic[1])
        /\ mg.list[ic[1] + 1].d[ic[2]][1] = t}

\* The pairs _iter_merge has yielded at time t.
YieldedAt(t) == {j \in 1..Len(mg.raw) : mg.raw[j][1] = t}

MergeLooping == mg.pc \in {"loop", "done"} /\ mg.err = "none" /\ Len(mg.list) > 0

\* C26: while _iter_merge runs, no two queued entries have the same series
\* index (so a tie on time is decided by the index alone), every queued
\* entry is a measurement of its series, the pairs yielded so far are, time
\* by time, as many as the measurements before the queued ones (each
\* measurement is popped once, none twice, none skipped), and when the loop
\* has ended the queue is empty and every measurement has been popped.
C26_OnePendingPerSeries ==
    MergeLooping =>
        /\ \A x, y \in mg.queue : x.index = y.index => x = y
        /\ Cardinality(mg.queue) <= Len(mg.list)
        /\ \A x \in mg.queue :
              /\ x.index \in 0..(Len(mg.list) - 1)
              /\ x.cursor \in 1..Len(mg.list[x.index + 1].d)
              /\ x = QueueEntry(mg.list, x.index, x.cursor)
        /\ \A t \in MergeTimes :
              Cardinality(YieldedAt(t)) = Cardinality(PoppedAt(t))
        /\ \A j \in 1..(Len(mg.raw) - 1) : mg.raw[j][1] <= mg.raw[j + 1][1]
        /\ mg.pc = "done" =>
              /\ mg.queue = {}
              /\ Len(mg.raw) = SumOfList([i \in 1..Len(mg.list) |-> Len(mg.list[i].d)])

\* A merge of two series of two or more measurements with a common time has
\* ended, every measurement popped.
C26_Witness ==
    /\ MergeLooping /\ mg.pc = "done" /\ Len(mg.list) = 2
    /\ Len(mg.list[1].d) >= 2 /\ Len(mg.list[2].d) >= 2
    /\ KeySet(mg.list[1].d) \cap KeySet(mg.list[2].d) # {}
    /\ mg.queue = {} /\ Len(mg.raw) = Len(mg.list[1].d) + Len(mg.list[2].d)

====
